---- MODULE Spec2Model ----
(***************************************************************************)
(* A model of benchmark.py: the orchestration of the non-parametric        *)
(* baseline benchmark.  main decides whether to build; _build fans the     *)
(* grid datasets x model settings out over a process pool, each task       *)
(* running _run_trials, which is backed by one JSON cache file per         *)
(* combination; the results are collected in submission order and written  *)
(* as one table.                                                           *)
(*                                                                         *)
(* The external collaborators are black boxes: a dataset class is a        *)
(* descriptor, remix(random_state) yields the split named by its seed, and *)
(* the evaluator's result is an uninterpreted term over the split and the  *)
(* model it was given.  Each of them may also raise.                       *)
(***************************************************************************)
EXTENDS Naturals, Sequences, FiniteSets, TLC

(***************************************************************************)
(* Bounds of the model.                                                    *)
(***************************************************************************)
\* number of invocations of main that are followed
NRuns == 2
\* largest value of --trials that is tried
MaxTrials == 2
\* largest size of the process pool (process_map goes by the cpu count)
MaxWorkers == 2
\* number of exceptions the black boxes raise
MaxFaults == 1
\* number of calls an invocation of main may still have to start when the
\* next invocation begins beside it
MaxOverlap == 1

(***************************************************************************)
(* Python values.  Every value is a record of the same shape, so that any  *)
(* two values can be compared.                                             *)
(***************************************************************************)
PyStr(s) == [ty |-> "str", v |-> s]
PyInt(n) == [ty |-> "int", v |-> ToString(n)]
PyBool(b) == [ty |-> "bool", v |-> IF b THEN "True" ELSE "False"]
PyFloat(s) == [ty |-> "float", v |-> s]
None == [ty |-> "NoneType", v |-> "None"]

\* the name of a metric of a RankBasedMetricResults
KS == <<"1", "5", "10", "50", "100">>
METRICS == <<"mrr", "iamr", "igmr">>
             \o [i \in 1..Len(KS) |-> "hits@" \o KS[i]]
             \o <<"aamr", "aamri">>

(***************************************************************************)
(* Sequences.                                                              *)
(***************************************************************************)
RECURSIVE Concat(_)
\* itertools.chain.from_iterable over a sequence of sequences
Concat(ss) == IF ss = <<>> THEN <<>> ELSE Head(ss) \o Concat(Tail(ss))

(***************************************************************************)
(* The registry of datasets (pykeen's dataset_resolver, an input of the    *)
(* program) and the model settings.                                        *)
(***************************************************************************)
DatasetCls(name, e, r, t) ==
    [name |-> name, entities |-> e, relations |-> r, triples |-> t]

Nations == DatasetCls("Nations", 14, 55, 1592)
Kinships == DatasetCls("Kinships", 104, 25, 8544)
FB15k237 == DatasetCls("FB15k237", 14505, 237, 272115)
YAGO310 == DatasetCls("YAGO310", 123143, 37, 1079040)
CoDExSmall == DatasetCls("CoDExSmall", 2034, 42, 32888)
FB15k == DatasetCls("FB15k", 14951, 1345, 483142)

\* Dataset.triples_sort_key
triples_sort_key(d) == d.triples

RECURSIVE InsertSorted(_, _)
\* d placed after every dataset whose key is not greater
InsertSorted(d, s) ==
    IF s = <<>> THEN <<d>>
    ELSE IF triples_sort_key(d) < triples_sort_key(Head(s)) THEN <<d>> \o s
    ELSE <<Head(s)>> \o InsertSorted(d, Tail(s))

RECURSIVE SortedDatasets(_)
\* sorted(dataset_resolver, key=Dataset.triples_sort_key): stable, ascending
SortedDatasets(s) ==
    IF s = <<>> THEN <<>>
    ELSE InsertSorted(s[Len(s)], SortedDatasets(SubSeq(s, 1, Len(s) - 1)))

\* list.index: the first position holding x (0-based in Python, 1-based here);
\* 0 stands for the ValueError of a missing element
ListIndex(s, x) ==
    IF \E i \in 1..Len(s) : s[i] = x
    THEN CHOOSE i \in 1..Len(s) : s[i] = x /\ \A j \in 1..(i-1) : s[j] # x
    ELSE 0

\* s[:n]
Prefix(s, n) == SubSeq(s, 1, IF n < Len(s) THEN n ELSE Len(s))

\* the number of datasets of the --test mode
TestDatasets == 5

\* dataset_resolver.lookup("FB15k-237")
CutoffDataset == FB15k237

\* (a variant whose full mode stops before the cutoff dataset)
SelectDatasetsBeforeCutoff(resolver, test) ==
    LET datasets == SortedDatasets(resolver) IN
    IF test THEN Prefix(datasets, TestDatasets)
    ELSE Prefix(datasets, ListIndex(datasets, CutoffDataset) - 1)

\* the datasets of a build
SelectDatasets(resolver, test) ==
    LET datasets == SortedDatasets(resolver) IN
    IF test THEN Prefix(datasets, TestDatasets)
    ELSE Prefix(datasets, ListIndex(datasets, CutoffDataset))

\* (a variant in which the second component varies slowest)
ProductSecondMajor(a, b) ==
    [i \in 1..(Len(a) * Len(b)) |->
        <<a[((i - 1) % Len(a)) + 1], b[((i - 1) \div Len(a)) + 1]>>]

\* itertools.product(a, b): the first component varies slowest
Product(a, b) ==
    [i \in 1..(Len(a) * Len(b)) |->
        <<a[((i - 1) \div Len(b)) + 1], b[((i - 1) % Len(b)) + 1]>>]

Setting(cls, kwargs) == [cls |-> cls, kwargs |-> kwargs]

\* a mapping is the sequence of its items, in insertion order
_get_settings ==
    LET flags == <<TRUE, FALSE>>
        pairs == Product(flags, flags)
        thresholds == <<None, PyFloat("0.1"), PyFloat("0.3")>>
    IN  [i \in 1..Len(pairs) |->
            Setting("MarginalDistributionBaseline",
                    << <<"entity_margin", PyBool(pairs[i][1])>>,
                       <<"relation_margin", PyBool(pairs[i][2])>> >>)]
        \o
        [i \in 1..Len(thresholds) |->
            Setting("SoftInverseTripleBaseline",
                    << <<"threshold", thresholds[i]>> >>)]

\* the parameter names of the settings, in the order Python sorts them
KeyOrder == <<"entity_margin", "relation_margin", "threshold">>

KeyRank(k) == CHOOSE i \in 1..Len(KeyOrder) : KeyOrder[i] = k

\* dict.get: the value of the last item under the key, None when there is none
DictGet(kwargs, key) ==
    IF \E i \in 1..Len(kwargs) : kwargs[i][1] = key
    THEN kwargs[CHOOSE i \in 1..Len(kwargs) :
                    kwargs[i][1] = key /\ \A j \in (i+1)..Len(kwargs) : kwargs[j][1] # key][2]
    ELSE None

DictKeys(kwargs) == {kwargs[i][1] : i \in 1..Len(kwargs)}

\* sorted(keys): the members of a set of parameter names, ascending
SortedKeys(keys) ==
    LET present == {i \in 1..Len(KeyOrder) : KeyOrder[i] \in keys}
        nth[n \in 0..Cardinality(present)] ==
            IF n = 0 THEN 0
            ELSE CHOOSE i \in present : i > nth[n-1] /\ \A j \in present : j > nth[n-1] => i <= j
    IN  [n \in 1..Cardinality(present) |-> KeyOrder[nth[n]]]

\* sorted({key for _, kwargs in model_settings for key in kwargs})
KwargsKeys(model_settings) ==
    SortedKeys(UNION {DictKeys(model_settings[i].kwargs) : i \in 1..Len(model_settings)})

(***************************************************************************)
(* JSON.  A document is not kept as text but as its values; a number token *)
(* is lexically an integer or a real, which is what json.loads goes by.    *)
(***************************************************************************)
JsonValue(j, v) == [j |-> j, v |-> v]

\* json.dumps of one value
JsonEncode(x) ==
    CASE x.ty = "str" -> JsonValue("string", x.v)
      [] x.ty = "int" -> JsonValue("integer", x.v)
      [] x.ty = "float" -> JsonValue("real", x.v)
      [] x.ty = "bool" -> JsonValue(IF x.v = "True" THEN "true" ELSE "false", "")
      [] x.ty = "NoneType" -> JsonValue("null", "")

\* (a variant that reads every number as a float)
JsonDecodeFloats(t) ==
    CASE t.j = "string" -> PyStr(t.v)
      [] t.j \in {"integer", "real"} -> PyFloat(t.v)
      [] t.j = "true" -> PyBool(TRUE)
      [] t.j = "false" -> PyBool(FALSE)
      [] t.j = "null" -> None

\* json.loads of one value
JsonDecode(t) ==
    CASE t.j = "string" -> PyStr(t.v)
      [] t.j = "integer" -> [ty |-> "int", v |-> t.v]
      [] t.j = "real" -> PyFloat(t.v)
      [] t.j = "true" -> PyBool(TRUE)
      [] t.j = "false" -> PyBool(FALSE)
      [] t.j = "null" -> None

\* a Python tuple and a Python list
Tuple(items) == [c |-> "tuple", items |-> items]
List(items) == [c |-> "list", items |-> items]

\* json.dumps(records): tuples and lists alike become arrays
JsonDumps(records) ==
    [i \in 1..Len(records) |->
        [k \in 1..Len(records[i].items) |-> JsonEncode(records[i].items[k])]]

\* json.loads(text): every array becomes a list
JsonLoads(doc) ==
    [i \in 1..Len(doc) |-> List([k \in 1..Len(doc[i]) |-> JsonDecode(doc[i][k])])]

\* the text json.dumps writes for one value
JsonText(x) ==
    LET t == JsonEncode(x) IN
    CASE t.j = "string" -> "\"" \o t.v \o "\""
      [] t.j \in {"integer", "real"} -> t.v
      [] t.j = "true" -> "true"
      [] t.j = "false" -> "false"
      [] t.j = "null" -> "null"

\* the items of a mapping sorted by key
SortItems(kwargs) ==
    LET keys == SortedKeys(DictKeys(kwargs)) IN
    [i \in 1..Len(keys) |-> <<keys[i], DictGet(kwargs, keys[i])>>]

RECURSIVE JoinItems(_)
JoinItems(items) ==
    IF items = <<>> THEN ""
    ELSE "\"" \o Head(items)[1] \o "\": " \o JsonText(Head(items)[2])
         \o (IF Len(items) > 1 THEN ", " ELSE "") \o JoinItems(Tail(items))

\* (a variant that serializes the items in insertion order)
JsonDumpsInsertionOrder(kwargs) == "{" \o JoinItems(kwargs) \o "}"

\* json.dumps(model_kwargs, sort_keys=True)
JsonDumpsSorted(kwargs) == "{" \o JoinItems(SortItems(kwargs)) \o "}"

\* hashlib.sha256(text.encode("utf-8")).hexdigest()[:8], tabulated for the
\* texts of the settings, with the parameters in either order
Sha256Hex8(text) ==
    CASE text = "{\"entity_margin\": true, \"relation_margin\": true}" -> "6ac7e8e8"
      [] text = "{\"entity_margin\": true, \"relation_margin\": false}" -> "c00b9762"
      [] text = "{\"entity_margin\": false, \"relation_margin\": true}" -> "5b8e1de6"
      [] text = "{\"entity_margin\": false, \"relation_margin\": false}" -> "43835b75"
      [] text = "{\"threshold\": null}" -> "a5de5163"
      [] text = "{\"threshold\": 0.1}" -> "d6418838"
      [] text = "{\"threshold\": 0.3}" -> "b7751f1f"
      [] text = "{\"relation_margin\": true, \"entity_margin\": true}" -> "89753de8"
      [] text = "{\"relation_margin\": false, \"entity_margin\": true}" -> "bdd3a5ee"
      [] text = "{\"relation_margin\": true, \"entity_margin\": false}" -> "63e0470d"
      [] text = "{\"relation_margin\": false, \"entity_margin\": false}" -> "4aecd710"

\* model_cls.__name__[: -len("Baseline")]
ModelName(cls) ==
    CASE cls = "MarginalDistributionBaseline" -> "MarginalDistribution"
      [] cls = "SoftInverseTripleBaseline" -> "SoftInverseTriple"

KwargsHash(model_kwargs) == Sha256Hex8(JsonDumpsSorted(model_kwargs))

\* (a variant that leaves the hash of the parameters out of the name)
CachePathNoHash(t) == t[1].name \o "_" \o ModelName(t[2].cls) \o ".json"

\* RUNS_DIR.joinpath(f"{dataset_name}_{model_name}_{kwargs_hash}.json")
CachePath(t) ==
    t[1].name \o "_" \o ModelName(t[2].cls) \o "_" \o KwargsHash(t[2].kwargs) \o ".json"

(***************************************************************************)
(* The black boxes: remix, model construction and evaluation.              *)
(***************************************************************************)
\* the dataset as loaded, and dataset.remix(random_state=seed)
BaseSplit(dataset) == dataset.name
Remix(dataset, seed) == dataset.name \o ".remix(" \o ToString(seed) \o ")"

\* model_cls(triples_factory=trial_dataset.training, **model_kwargs)
Model(cls, training, kwargs) ==
    cls \o "(" \o training \o ", " \o JsonDumpsSorted(kwargs) \o ")"

\* _evaluate_baseline(trial_dataset, model): the result is a term over its inputs
Evaluate(trial_dataset, model) == model \o " on " \o trial_dataset

\* result.get_metric(metric)
GetMetric(result, metric) == PyFloat(metric \o " of " \o result)

\* time.time() - start_time: a reading of the wall clock, told apart by the
\* invocation of main that took it
Elapsed(r) == PyFloat("elapsed in run " \o ToString(r))

\* (a variant that empties every falsy value)
CleanFalsy(x) ==
    IF x = None \/ x = PyFloat("nan") \/ x = PyBool(FALSE) THEN PyStr("") ELSE x

\* _clean
Clean(x) == IF x = None \/ x = PyFloat("nan") THEN PyStr("") ELSE x

\* (a variant that remixes with one seed for every trial)
TrialDatasetFixedSeed(dataset, trials, trial) ==
    IF trials # 0 THEN Remix(dataset, 0) ELSE BaseSplit(dataset)

\* the dataset of a trial
TrialDataset(dataset, trials, trial) ==
    IF trials # 0 THEN Remix(dataset, trial) ELSE BaseSplit(dataset)

\* the record of one trial
TrialRecord(r, t, keys, trials, trial) ==
    LET dataset == t[1]
        model_cls == t[2].cls
        model_kwargs == t[2].kwargs
        base_record == <<PyStr(dataset.name), PyInt(dataset.entities),
                         PyInt(dataset.relations), PyInt(dataset.triples)>>
        trial_dataset == TrialDataset(dataset, trials, trial)
        model == Model(model_cls, trial_dataset, model_kwargs)
        result == Evaluate(trial_dataset, model)
    IN  Tuple(base_record
              \o <<PyInt(trial), PyStr(ModelName(model_cls))>>
              \o [i \in 1..Len(keys) |-> Clean(DictGet(model_kwargs, keys[i]))]
              \o <<Elapsed(r)>>
              \o [i \in 1..Len(METRICS) |-> GetMetric(result, METRICS[i])])

(***************************************************************************)
(* The state.                                                              *)
(***************************************************************************)
VARIABLES
    dataset_resolver,   \* the registry of dataset classes, in its own order
    files,              \* RUNS_DIR: the content of every cache path
    tables,             \* BENCHMARK_DIRECTORY: the two tables
    pc,                 \* where each invocation of main is
    args,               \* the options each invocation of main was given
    task,               \* per invocation, the calls of _run_trials in the pool
    order,              \* per invocation, the grid positions collected so far
    df,                 \* per invocation, the frame main ends up with
    faults,             \* how many more exceptions the black boxes raise
    max_workers,        \* the size of the process pool
    hashed,             \* the mappings hashed on their own, with text and key
    plans               \* the dataset sequences and grids generated on their own

vars == <<dataset_resolver, files, tables, pc, args, task, order, df, faults,
          max_workers, hashed, plans>>

Runs == 1..NRuns

BENCHMARK_PATH == "results.tsv"
TEST_BENCHMARK_PATH == "test_results.tsv"

\* the registries that are tried: every one holds the cutoff dataset
NarrowRegistry == <<FB15k237>>
WideRegistry == <<YAGO310, FB15k237>>
Registries == {NarrowRegistry, WideRegistry}

Args == [trials : 0..MaxTrials, rebuild : BOOLEAN, test : BOOLEAN]

\* itt.product(datasets, model_settings)
Grid(resolver, test) == Product(SelectDatasets(resolver, test), _get_settings)

\* the grids and their cache paths, worked out once
Grids == [reg \in Registries |-> [test \in BOOLEAN |-> Grid(reg, test)]]
Paths ==
    [reg \in Registries |-> [test \in BOOLEAN |->
        [k \in 1..Len(Grids[reg][test]) |-> CachePath(Grids[reg][test][k])]]]

\* kwargs_keys of _build
kwargs_keys == KwargsKeys(_get_settings)

\* every cache path a grid can name
AllPaths ==
    {CachePath(<<d, _get_settings[i]>>) :
        d \in UNION {{reg[j] : j \in 1..Len(reg)} : reg \in Registries},
        i \in 1..Len(_get_settings)}

\* the content of a path: absent, opened for writing and not yet written
\* through (no complete JSON text), or a complete document
Absent == [st |-> "absent", doc |-> <<>>]
Partial == [st |-> "partial", doc |-> <<>>]
Full(doc) == [st |-> "full", doc |-> doc]

NoTable == [exists |-> FALSE, columns |-> <<>>, rows |-> <<>>]
NoFrame == [how |-> "none", columns |-> <<>>, rows |-> <<>>]

\* pd.DataFrame(rows, columns=columns): a row is the items of a record,
\* tuple or list
DataFrame(rows, columns) ==
    [how |-> "DataFrame", columns |-> columns,
     rows |-> [i \in 1..Len(rows) |-> rows[i].items]]

\* df.to_csv(path, sep="\t", index=False): every cell is the text of its value
ToCsv(frame) ==
    [exists |-> TRUE, columns |-> frame.columns,
     rows |-> [i \in 1..Len(frame.rows) |->
                  [k \in 1..Len(frame.rows[i]) |-> frame.rows[i][k].v]]]

\* pd.read_csv(path, sep="\t"): the cells as read; the types pandas infers
\* for them are not modelled
ReadCsv(table) == [how |-> "read_csv", columns |-> table.columns, rows |-> table.rows]

Columns(keys) ==
    <<"dataset", "entities", "relations", "triples", "trial", "model">>
    \o keys \o <<"time">> \o METRICS

NoCalls == [dataset |-> 0, model |-> 0, evaluate |-> 0, write |-> 0]

\* a call of _run_trials that the pool has not started
\* (found: what the lookup of the cache path saw; calls: how often the call
\* has constructed a dataset, constructed a model, evaluated, written)
Queued == [pc |-> "queued", found |-> "", trial |-> 0, records |-> <<>>,
           error |-> "", calls |-> NoCalls]

Active(t) == t.pc \in {"dataset", "loop", "write"}

\* the options of an invocation that has not begun
NoArgs == [trials |-> 0, rebuild |-> FALSE, test |-> FALSE]

\* whether a black box may raise now
MayRaise == faults > 0

\* what holds before any invocation of main, whatever the inputs
Start ==
    /\ files = [p \in AllPaths |-> Absent]
    /\ tables = [p \in {BENCHMARK_PATH, TEST_BENCHMARK_PATH} |-> NoTable]
    /\ pc = [r \in Runs |-> "idle"]
    /\ task = [r \in Runs |-> <<>>]
    /\ order = [r \in Runs |-> <<>>]
    /\ df = [r \in Runs |-> NoFrame]
    /\ hashed = <<>>
    /\ plans = <<>>

\* the inputs: a one-dataset registry with black boxes that may raise, or a
\* registry of several datasets with black boxes that do not
Init ==
    /\ Start
    /\ args = [r \in Runs |-> NoArgs]
    /\ max_workers = MaxWorkers
    /\ \/ dataset_resolver = NarrowRegistry /\ faults = MaxFaults
       \/ dataset_resolver = WideRegistry /\ faults = 0

(***************************************************************************)
(* main, up to the call of process_map in _build.                          *)
(***************************************************************************)
TablePath(test) == IF test THEN TEST_BENCHMARK_PATH ELSE BENCHMARK_PATH

\* (a variant that does not look at --test)
MustBuildUnlessTestTable(is_file, rebuild, test) == ~is_file \/ rebuild

\* (a variant that does not look at --rebuild)
MustBuildUnlessTable(is_file, rebuild, test) == ~is_file \/ test

\* main's condition for building
MustBuild(is_file, rebuild, test) == ~is_file \/ rebuild \/ test

\* main, given the options a
Main(r, a) ==
    /\ pc[r] = "idle"
    /\ \A q \in 1..(r-1) : pc[q] # "idle"
    /\ args' = [args EXCEPT ![r] = a]
    /\ LET path == TablePath(a.test) IN
        IF MustBuild(tables[path].exists, a.rebuild, a.test)
        THEN /\ pc' = [pc EXCEPT ![r] = "build"]
             /\ task' = [task EXCEPT ![r] =
                           [k \in 1..Len(Grids[dataset_resolver][a.test]) |-> Queued]]
             /\ df' = df
        ELSE /\ pc' = [pc EXCEPT ![r] = "done"]
             /\ df' = [df EXCEPT ![r] = ReadCsv(tables[path])]
             /\ task' = task
    /\ UNCHANGED <<dataset_resolver, files, tables, order, faults, max_workers, hashed, plans>>

\* main started once every earlier invocation has returned
MainAfter(r) ==
    /\ \A q \in 1..(r-1) : pc[q] = "done"
    /\ \E a \in Args : Main(r, a)

(***************************************************************************)
(* _run_trials, as the task at position k of the grid of invocation r.     *)
(***************************************************************************)
\* the grid of invocation r, and the cache path of its k-th call
TheGrid(r) == Grids[dataset_resolver][args[r].test]
PathAt(r, k) == Paths[dataset_resolver][args[r].test][k]

\* (a variant that yields results as they complete)
NextResultAsCompleted(r) ==
    {k \in 1..Len(task[r]) :
        /\ task[r][k].pc \in {"done", "failed"}
        /\ \A i \in 1..Len(order[r]) : order[r][i] # k}

\* the grid position whose result process_map yields next
NextResult(r) == {Len(order[r]) + 1} \cap (1..Len(task[r]))

\* main waits in list(...) for the next result and takes it as soon as its
\* call has returned: until then the pool does not move on
Waiting(r) == \A k \in NextResult(r) : task[r][k].pc # "done"

\* the next result is an exception: raised inside process_map's iterator,
\* it makes the iterator cancel every call the pool has not started
Cancelled(r) == \E k \in NextResult(r) : task[r][k].pc = "failed"

\* (a variant that goes on to compute although the cache path exists)
CacheHitRecompute(t, content) == [t EXCEPT !.pc = "dataset", !.found = content.st]

\* (a variant that computes when the file cannot be decoded)
CacheHitFallback(t, content) ==
    IF content.st = "full"
    THEN [t EXCEPT !.pc = "done", !.found = content.st,
                   !.records = JsonLoads(content.doc)]
    ELSE [t EXCEPT !.pc = "dataset", !.found = content.st]

\* what _run_trials does when the cache path exists
CacheHit(t, content) ==
    IF content.st = "full"
    THEN [t EXCEPT !.pc = "done", !.found = content.st,
                   !.records = JsonLoads(content.doc)]
    ELSE [t EXCEPT !.pc = "failed", !.found = content.st,
                   !.error = "JSONDecodeError"]

\* (a variant that never sees the file)
ExistsNever(content) == FALSE

\* path.exists()
Exists(content) == content.st # "absent"

\* the pool hands out the calls in submission order, max_workers at a time;
\* the call computes its path and looks it up
TaskStart(r, k) ==
    /\ Waiting(r)
    /\ pc[r] = "build"
    /\ k \in 1..Len(task[r])
    /\ task[r][k].pc = "queued"
    /\ ~Cancelled(r)
    /\ \A j \in 1..(k-1) : task[r][j].pc # "queued"
    /\ Cardinality({j \in 1..Len(task[r]) : Active(task[r][j])}) < max_workers
    /\ LET path == PathAt(r, k) IN
       task' = [task EXCEPT ![r][k] =
                   IF Exists(files[path]) THEN CacheHit(@, files[path])
                   ELSE [@ EXCEPT !.pc = "dataset", !.found = files[path].st]]
    /\ UNCHANGED <<dataset_resolver, files, tables, pc, args, order, df, faults, max_workers, hashed, plans>>

\* dataset = dataset_cls(), which may raise
TaskDataset(r, k) ==
    /\ Waiting(r)
    /\ k \in 1..Len(task[r])
    /\ task[r][k].pc = "dataset"
    /\ \E ok \in (IF MayRaise THEN BOOLEAN ELSE {TRUE}) :
        /\ task' = [task EXCEPT ![r][k] =
                    IF ok THEN [@ EXCEPT !.pc = "loop", !.calls.dataset = @ + 1]
                    ELSE [@ EXCEPT !.pc = "failed", !.error = "dataset",
                                   !.calls.dataset = @ + 1]]
        /\ faults' = IF ok THEN faults ELSE faults - 1
    /\ UNCHANGED <<dataset_resolver, files, tables, pc, args, order, df, max_workers, hashed, plans>>

\* (a variant that runs one trial more)
RangeInclusive(trials) == 0..trials

\* range(trials)
Range(trials) == 0..(trials - 1)

\* (a variant that leaves the loop after its first iteration)
LoopDoneAfterFirst(trial, trials) == trial >= 1 \/ trial \notin Range(trials)

\* whether the loop over range(trials) is over
LoopDone(trial, trials) == trial \notin Range(trials)

\* one iteration of the loop: remix, model, evaluation, record; the model's
\* construction and the evaluation may raise
TaskTrial(r, k) ==
    /\ Waiting(r)
    /\ k \in 1..Len(task[r])
    /\ task[r][k].pc = "loop"
    /\ ~LoopDone(task[r][k].trial, args[r].trials)
    /\ \E outcome \in {"ok"} \cup (IF MayRaise THEN {"model", "evaluate"} ELSE {}) :
        /\ faults' = IF outcome = "ok" THEN faults ELSE faults - 1
        /\ task' = [task EXCEPT ![r][k] =
            CASE outcome = "ok" ->
                    [@ EXCEPT !.trial = @ + 1,
                              !.calls.model = @ + 1,
                              !.calls.evaluate = @ + 1,
                              !.records = Append(@,
                                  TrialRecord(r, TheGrid(r)[k], kwargs_keys,
                                              args[r].trials, task[r][k].trial))]
              [] outcome = "model" ->
                    [@ EXCEPT !.pc = "failed", !.error = "model", !.calls.model = @ + 1]
              [] outcome = "evaluate" ->
                    [@ EXCEPT !.pc = "failed", !.error = "evaluate",
                              !.calls.model = @ + 1, !.calls.evaluate = @ + 1]]
    /\ UNCHANGED <<dataset_resolver, files, tables, pc, args, order, df, max_workers, hashed, plans>>

\* the loop is over: path.write_text opens the file, which truncates it
TaskWriteOpen(r, k) ==
    /\ Waiting(r)
    /\ k \in 1..Len(task[r])
    /\ task[r][k].pc = "loop"
    /\ LoopDone(task[r][k].trial, args[r].trials)
    /\ task' = [task EXCEPT ![r][k].pc = "write", ![r][k].calls.write = @ + 1]
    /\ files' = [files EXCEPT ![PathAt(r, k)] = Partial]
    /\ UNCHANGED <<dataset_resolver, tables, pc, args, order, df, faults, max_workers, hashed, plans>>

\* write_text writes json.dumps(records, indent=2) through and closes;
\* the call returns its records
TaskWriteClose(r, k) ==
    /\ Waiting(r)
    /\ k \in 1..Len(task[r])
    /\ task[r][k].pc = "write"
    /\ files' = [files EXCEPT ![PathAt(r, k)] =
                    Full(JsonDumps(task[r][k].records))]
    /\ task' = [task EXCEPT ![r][k].pc = "done"]
    /\ UNCHANGED <<dataset_resolver, tables, pc, args, order, df, faults, max_workers, hashed, plans>>

(***************************************************************************)
(* _build, from process_map on.                                            *)
(***************************************************************************)
\* (a variant that takes the result of a failed call as no records)
CollectSkippingFailures(r) ==
    /\ pc[r] = "build"
    /\ \E k \in NextResult(r) :
        /\ task[r][k].pc \in {"done", "failed"}
        /\ order' = [order EXCEPT ![r] = Append(@, k)]
    /\ UNCHANGED <<dataset_resolver, files, tables, pc, args, task, df, faults, max_workers, hashed, plans>>

\* list(...) takes the next result once its call has returned
Collect(r) ==
    /\ pc[r] = "build"
    /\ \E k \in NextResult(r) :
        /\ task[r][k].pc = "done"
        /\ order' = [order EXCEPT ![r] = Append(@, k)]
    /\ UNCHANGED <<dataset_resolver, files, tables, pc, args, task, df, faults, max_workers, hashed, plans>>

\* the next result is an exception: it leaves _build and main once the pool
\* has shut down, which waits for the calls that are running
BuildFail(r) ==
    /\ pc[r] = "build"
    /\ Cancelled(r)
    /\ \A j \in 1..Len(task[r]) : ~Active(task[r][j])
    /\ pc' = [pc EXCEPT ![r] = "failed"]
    /\ UNCHANGED <<dataset_resolver, files, tables, args, task, order, df, faults, max_workers, hashed, plans>>

\* rows = list(itt.chain.from_iterable(it))
Rows(r) == Concat([i \in 1..Len(order[r]) |-> task[r][order[r][i]].records])

\* every result is in: the frame is made, written and returned
BuildFinish(r) ==
    /\ pc[r] = "build"
    /\ Len(order[r]) = Len(task[r])
    /\ LET frame == DataFrame(Rows(r), Columns(kwargs_keys)) IN
        /\ df' = [df EXCEPT ![r] = frame]
        /\ tables' = [tables EXCEPT ![TablePath(args[r].test)] = ToCsv(frame)]
    /\ pc' = [pc EXCEPT ![r] = "done"]
    /\ UNCHANGED <<dataset_resolver, files, args, task, order, faults, max_workers, hashed, plans>>

TaskStep(r) ==
    \E k \in 1..Len(task[r]) :
        \/ TaskStart(r, k)
        \/ TaskDataset(r, k)
        \/ TaskTrial(r, k)
        \/ TaskWriteOpen(r, k)
        \/ TaskWriteClose(r, k)

\* main started while the earlier invocations, which share its directories,
\* are in their last calls or have ended
MainRace(r) ==
    /\ \A q \in 1..(r-1) :
        Cardinality({k \in 1..Len(task[q]) : task[q][k].pc = "queued"}) <= MaxOverlap
    /\ \E a \in Args : Main(r, a)

InitOverlap ==
    /\ Start
    /\ args = [r \in Runs |-> NoArgs]
    /\ dataset_resolver = NarrowRegistry
    /\ faults = 0
    /\ max_workers = 1

NextOverlap ==
    \E r \in Runs :
        \/ MainRace(r)
        \/ TaskStep(r)
        \/ Collect(r)
        \/ BuildFail(r)
        \/ BuildFinish(r)

\* invocations of main one after the other
Next ==
    \E r \in Runs :
        \/ MainAfter(r)
        \/ TaskStep(r)
        \/ Collect(r)
        \/ BuildFail(r)
        \/ BuildFinish(r)

Spec == Init /\ [][Next]_vars

SpecOverlap == InitOverlap /\ [][NextOverlap]_vars

(***************************************************************************)
(* The cache key on its own: lines 241-243 of _run_trials applied to the   *)
(* parameter mappings of the settings, their items in every order.         *)
(***************************************************************************)
MaxHashed == 3

\* the mappings with the items of kwargs, in every insertion order
Reorderings(kwargs) ==
    {[i \in 1..Len(kwargs) |-> kwargs[p[i]]] : p \in Permutations(1..Len(kwargs))}

\* the mappings that are hashed
MappingsTried ==
    UNION {Reorderings(_get_settings[j].kwargs) : j \in 1..Len(_get_settings)}

\* kwargs_hash = sha256(json.dumps(model_kwargs, sort_keys=True))[:8]
HashKwargs(model_kwargs) ==
    /\ Len(hashed) < MaxHashed
    /\ hashed' = Append(hashed, [model_kwargs |-> model_kwargs,
                                 text |-> JsonDumpsSorted(model_kwargs),
                                 kwargs_hash |-> KwargsHash(model_kwargs)])
    /\ UNCHANGED <<dataset_resolver, files, tables, pc, args, task, order, df,
                   faults, max_workers, plans>>

InitKey ==
    /\ Start
    /\ args = [r \in Runs |-> NoArgs]
    /\ dataset_resolver = NarrowRegistry
    /\ faults = 0
    /\ max_workers = MaxWorkers

NextKey == \E model_kwargs \in MappingsTried : HashKwargs(model_kwargs)

SpecKey == InitKey /\ [][NextKey]_vars

(***************************************************************************)
(* The grid on its own: lines 191-208 of _build applied to registries of   *)
(* up to six datasets, in every order, in test mode and in full mode.      *)
(***************************************************************************)
MaxPlans == 2

\* the datasets a registry may hold besides the cutoff dataset
DatasetPool == {Nations, Kinships, CoDExSmall, FB15k, YAGO310}

\* the sequences that list the members of a set once each
Orderings(S) ==
    {f \in [1..Cardinality(S) -> S] :
        \A i, j \in 1..Cardinality(S) : i # j => f[i] # f[j]}

\* the registries that are tried: every one holds the cutoff dataset
GridRegistries == UNION {Orderings(S \cup {CutoffDataset}) : S \in SUBSET DatasetPool}

\* datasets, model_settings and the grid handed to process_map
GenerateGrid(test) ==
    /\ Len(plans) < MaxPlans
    /\ plans' = Append(plans, [test |-> test,
                               datasets |-> SelectDatasets(dataset_resolver, test),
                               model_settings |-> _get_settings,
                               grid |-> Grid(dataset_resolver, test)])
    /\ UNCHANGED <<dataset_resolver, files, tables, pc, args, task, order, df,
                   faults, max_workers, hashed>>

InitGrid ==
    /\ Start
    /\ args = [r \in Runs |-> NoArgs]
    /\ dataset_resolver \in GridRegistries
    /\ faults = 0
    /\ max_workers = MaxWorkers

NextGrid == \E test \in BOOLEAN : GenerateGrid(test)

SpecGrid == InitGrid /\ [][NextGrid]_vars

(***************************************************************************)
(* Properties.                                                             *)
(***************************************************************************)
\* the calls of _run_trials of all invocations
Calls == UNION {{<<r, k>> : k \in 1..Len(task[r])} : r \in Runs}

\* the combination call c is given, and its cache path
Combination(c) == TheGrid(c[1])[c[2]]
PathOf(c) == PathAt(c[1], c[2])

\* a call that found no cache file and has returned
ReturnedFromMiss(c) ==
    task[c[1]][c[2]].pc = "done" /\ task[c[1]][c[2]].found = "absent"

\* the metric values the evaluator gives for a model built on a split and
\* evaluated on it
MetricsOn(split, setting) ==
    [m \in 1..Len(METRICS) |->
        GetMetric(Evaluate(split, Model(setting.cls, split, setting.kwargs)), METRICS[m])]

\* the datasets of the registries
AllDatasets == UNION {{reg[j] : j \in 1..Len(reg)} : reg \in Registries}

\* the metric values of every setting on every remixed split and on every
\* dataset as loaded, worked out once
RemixMetrics ==
    [d \in AllDatasets |-> [j \in 1..Len(_get_settings) |-> [i \in 0..MaxTrials |->
        MetricsOn(Remix(d, i), _get_settings[j])]]]
BaseMetrics ==
    [d \in AllDatasets |-> [j \in 1..Len(_get_settings) |->
        MetricsOn(BaseSplit(d), _get_settings[j])]]

\* the position in _get_settings of the setting of call c
SettingIndex(c) == ((c[2] - 1) % Len(_get_settings)) + 1

\* the last Len(METRICS) items of a record
MetricItems(items) == SubSeq(items, Len(items) - Len(METRICS) + 1, Len(items))

\* the position of the trial index in a record
TrialField == 5

\* C1: a call that misses the cache with trials = T >= 1 returns T records,
\* the i-th with trial index i-1 and with the metrics of the split remixed
\* with seed i-1, and the cache file holds exactly these records, in order.
C1_TrialsOnMiss ==
    \A c \in Calls :
        LET t == task[c[1]][c[2]]
            T == args[c[1]].trials
        IN  (ReturnedFromMiss(c) /\ T >= 1) =>
                /\ Len(t.records) = T
                /\ \A i \in 0..(T - 1) :
                    /\ t.records[i + 1].items[TrialField] = PyInt(i)
                    /\ MetricItems(t.records[i + 1].items)
                         = RemixMetrics[Combination(c)[1]][SettingIndex(c)][i]
                /\ files[PathOf(c)].st = "full"
                /\ Len(files[PathOf(c)].doc) = T
                /\ \A i \in 0..(T - 1) :
                    /\ files[PathOf(c)].doc[i + 1][TrialField]
                         = JsonValue("integer", ToString(i))
                    /\ JsonLoads(files[PathOf(c)].doc)[i + 1].items
                         = t.records[i + 1].items

\* C1's case: a call has missed the cache, run several trials and returned
C1_Witness ==
    \E c \in Calls :
        /\ ReturnedFromMiss(c)
        /\ args[c[1]].trials = MaxTrials
        /\ Len(task[c[1]][c[2]].records) >= 2

\* C2 (as claimed): a call that misses the cache with trials = 0 returns and
\* stores exactly one record, computed from the dataset as loaded.
C2_ZeroTrialsOneRecord ==
    \A c \in Calls :
        LET t == task[c[1]][c[2]] IN
        (ReturnedFromMiss(c) /\ args[c[1]].trials = 0) =>
            /\ Len(t.records) = 1
            /\ MetricItems(t.records[1].items)
                 = BaseMetrics[Combination(c)[1]][SettingIndex(c)]
            /\ Len(files[PathOf(c)].doc) = 1

\* the state of call c
CallOf(c) == task[c[1]][c[2]]

\* the lookup of call c found the cache path existing
FoundExisting(c) == CallOf(c).found \in {"partial", "full"}

\* call c is looking its cache path up in this step
LooksUp(c) == CallOf(c).pc = "queued" /\ task'[c[1]][c[2]].pc # "queued"

\* C3 (as claimed): whenever the cache path exists, the call returns the
\* stored records and constructs, evaluates and writes nothing.
C3_HitWheneverExists ==
    \A c \in Calls :
        FoundExisting(c) => CallOf(c).pc = "done" /\ CallOf(c).calls = NoCalls

\* C3 (amended): a call that finds its cache path holding a complete document
\* returns, in that very step, the list of the stored records, whatever the
\* requested number of trials; it constructs no dataset and no model,
\* evaluates nothing, writes nothing and leaves every file as it is, so that
\* a second call in the state it leaves reads the same records.
C3_HitOnCompleteFile ==
    /\ [][\A c \in Calls :
            (LooksUp(c) /\ files[PathOf(c)].st = "full") =>
                /\ task'[c[1]][c[2]].pc = "done"
                /\ task'[c[1]][c[2]].records = JsonLoads(files[PathOf(c)].doc)
                /\ task'[c[1]][c[2]].calls = NoCalls
                /\ files' = files]_vars
    /\ [](\A c \in Calls :
            CallOf(c).found = "full" =>
                CallOf(c).pc = "done" /\ CallOf(c).calls = NoCalls)

\* C3's case: a call has returned cached records whose number is not the
\* number of trials it was asked for
C3_Witness ==
    \E c \in Calls :
        /\ CallOf(c).found = "full"
        /\ CallOf(c).pc = "done"
        /\ Len(CallOf(c).records) >= 1
        /\ Len(CallOf(c).records) # args[c[1]].trials

\* the table of invocation r is the last one written to its path
LastTable(r) ==
    \A q \in (r+1)..NRuns :
        pc[q] = "done" => df[q].how # "DataFrame" \/ args[q].test # args[r].test

Raised(c) == CallOf(c).error \in {"dataset", "model", "evaluate"}

\* C5: a cache file exists only once a call that found it missing has run
\* all its trials, and then holds nothing but that call's records; a call
\* writes at most once, after its last evaluation; and a call whose dataset,
\* model or evaluation has raised has written nothing and leaves its cache
\* path as it found it, absent.
C5_NoPartialEntry ==
    /\ \A p \in AllPaths :
        files[p].st # "absent" =>
            \E c \in Calls :
                /\ PathOf(c) = p
                /\ CallOf(c).found = "absent"
                /\ CallOf(c).pc \in {"write", "done"}
                /\ CallOf(c).trial = args[c[1]].trials
                /\ Len(CallOf(c).records) = args[c[1]].trials
                /\ files[p].st = "full" => files[p].doc = JsonDumps(CallOf(c).records)
    /\ \A c \in Calls :
        /\ CallOf(c).calls.write <= 1
        /\ CallOf(c).calls.write = 1 =>
            /\ CallOf(c).calls.evaluate = args[c[1]].trials
            /\ CallOf(c).trial = args[c[1]].trials
        /\ Raised(c) =>
            /\ CallOf(c).calls.write = 0
            /\ files[PathOf(c)] = Absent

\* C5's case: an evaluation has raised after an earlier trial of the same
\* call had succeeded
C5_Witness ==
    \E c \in Calls :
        /\ CallOf(c).error = "evaluate"
        /\ CallOf(c).trial >= 1
        /\ Len(CallOf(c).records) >= 1
        /\ pc[c[1]] = "failed"

\* the records of the calls of invocation r, in grid order
RecordsInGridOrder(r) ==
    Concat([k \in 1..Len(task[r]) |->
        [i \in 1..Len(task[r][k].records) |-> task[r][k].records[i].items]])

\* the datasets of the grid of invocation r
DatasetsOf(r) == SelectDatasets(dataset_resolver, args[r].test)

\* the positions of the dataset name and of the model name in a record
DatasetField == 1
ModelField == 6

\* C6: results are taken in grid order whatever the order in which the calls
\* return, so the frame of a finished build is the concatenation of the calls'
\* records in grid order, dataset-major and then in the order of the settings,
\* and the table written is the text of that frame.
C6_TableInGridOrder ==
    \A r \in Runs :
        /\ order[r] = [i \in 1..Len(order[r]) |-> i]
        /\ \A k \in 1..Len(task[r]) : \A i \in 1..Len(task[r][k].records) :
            LET C == Len(_get_settings)
                items == task[r][k].records[i].items
            IN  /\ items[DatasetField] = PyStr(DatasetsOf(r)[((k - 1) \div C) + 1].name)
                /\ items[ModelField] = PyStr(ModelName(_get_settings[((k - 1) % C) + 1].cls))
        /\ df[r].how = "DataFrame" =>
            /\ df[r].rows = RecordsInGridOrder(r)
            /\ LastTable(r) => tables[TablePath(args[r].test)] = ToCsv(df[r])

\* C6's case: over two datasets, a call has returned before a call earlier in
\* the grid, with results already taken
C6_Witness ==
    \E r \in Runs :
        /\ Len(DatasetsOf(r)) = 2
        /\ args[r].trials >= 1
        /\ Len(order[r]) >= 1
        /\ \E j, k \in 1..Len(task[r]) :
            j < k /\ Active(task[r][j]) /\ task[r][k].pc = "done"

\* the name the source gives the cache file of a combination
PathName(t) ==
    t[1].name \o "_" \o ModelName(t[2].cls) \o "_" \o KwargsHash(t[2].kwargs) \o ".json"

\* every cache path of every grid has that name, worked out once
PathsNamed ==
    \A reg \in Registries : \A test \in BOOLEAN :
        \A k \in 1..Len(Grids[reg][test]) :
            Paths[reg][test][k] = PathName(Grids[reg][test][k])

\* C7: the calls of one invocation have pairwise distinct cache paths, each
\* made of the dataset name, the model name without "Baseline" and the hash
\* of the parameters, so no two calls that have started share a path.
C7_DistinctPaths ==
    /\ PathsNamed
    /\ \A r \in Runs : \A j, k \in 1..Len(task[r]) :
        j # k => PathAt(r, j) # PathAt(r, k)

\* C7's case: two calls of one invocation, for the same dataset and the same
\* model class, are running at the same time
C7_Witness ==
    \E r \in Runs : \E j, k \in 1..Len(task[r]) :
        /\ j # k
        /\ Active(task[r][j]) /\ Active(task[r][k])
        /\ TheGrid(r)[j][1] = TheGrid(r)[k][1]
        /\ TheGrid(r)[j][2].cls = TheGrid(r)[k][2].cls

\* C8 (as claimed): once a cache file is complete its content never changes.
C8_NeverMutated ==
    [][\A p \in AllPaths : files[p].st = "full" => files'[p] = files[p]]_vars

\* C8 (amended): a call that finds its cache file existing never writes, so a
\* complete cache file changes only in a step in which a call that had found
\* the path absent, before the file was there, opens or ends its own write.
C8_OnlyEarlierMissOverwrites ==
    /\ [][\A p \in AllPaths :
            (files[p].st = "full" /\ files'[p] # files[p]) =>
                \E c \in Calls :
                    /\ PathOf(c) = p
                    /\ CallOf(c).found = "absent"
                    /\ \/ CallOf(c).pc = "loop" /\ task'[c[1]][c[2]].pc = "write"
                       \/ CallOf(c).pc = "write" /\ task'[c[1]][c[2]].pc = "done"]_vars
    /\ [](\A c \in Calls : FoundExisting(c) => CallOf(c).calls.write = 0)

\* C8's case: two invocations that overlap have both missed one cache path
\* and both written it
C8_Witness ==
    \E c, d \in Calls :
        /\ c[1] < d[1]
        /\ PathOf(c) = PathOf(d)
        /\ CallOf(c).found = "absent" /\ CallOf(d).found = "absent"
        /\ CallOf(c).calls.write = 1 /\ CallOf(d).calls.write = 1
        /\ CallOf(c).pc = "done" /\ CallOf(d).pc = "done"

\* invocation r has built its frame
Built(r) == pc[r] = "done" /\ df[r].how = "DataFrame"

\* C9: when two invocations have both built over the same grid with the same
\* number of trials, the later one has the rows of the earlier one, in the
\* same order, and none of its calls has evaluated: each is a cache hit.
C9_SecondRunFromCache ==
    \A q, r \in Runs :
        (/\ q < r
         /\ Built(q) /\ Built(r)
         /\ TheGrid(q) = TheGrid(r)
         /\ args[q].trials = args[r].trials) =>
            /\ df[r].rows = df[q].rows
            /\ \A k \in 1..Len(task[r]) :
                /\ task[r][k].found = "full"
                /\ task[r][k].calls.evaluate = 0

\* C9's case: the second of two builds over the same grid, with the same
\* number of trials, at least one, has finished
C9_Witness ==
    \E q, r \in Runs :
        /\ q < r
        /\ Built(q) /\ Built(r)
        /\ TheGrid(q) = TheGrid(r)
        /\ args[q].trials = args[r].trials
        /\ args[r].trials >= 1
        /\ Len(df[r].rows) >= Len(TheGrid(r))

\* the cache paths that exist
Entries == {p \in AllPaths : files[p].st # "absent"}

\* C10: the first invocation, which starts from an empty cache, with
\* trials = T >= 1 over D datasets and C settings makes one call for each of
\* the D*C distinct combinations, each of which has constructed its dataset
\* once and left a cache file of T records; its frame and its table have
\* D*C*T rows; and until another invocation starts the cache holds D*C files.
C10_RowCounts ==
    (Built(1) /\ args[1].trials >= 1) =>
        LET D == Len(DatasetsOf(1))
            C == Len(_get_settings)
            T == args[1].trials
        IN  /\ Len(task[1]) = D * C
            /\ \A j, k \in 1..Len(task[1]) : j # k => TheGrid(1)[j] # TheGrid(1)[k]
            /\ \A k \in 1..Len(task[1]) :
                /\ task[1][k].pc = "done"
                /\ task[1][k].calls.dataset = 1
                /\ task[1][k].calls.write = 1
                /\ Len(task[1][k].records) = T
                /\ files[PathAt(1, k)].st = "full"
                /\ Len(files[PathAt(1, k)].doc) = T
            /\ Len(df[1].rows) = D * C * T
            /\ (\A q \in Runs \ {1} : pc[q] = "idle") =>
                /\ Cardinality(Entries) = D * C
                /\ Len(tables[TablePath(args[1].test)].rows) = D * C * T

\* C10's case: the first invocation has built over two datasets with two trials
C10_Witness ==
    /\ Built(1)
    /\ Len(DatasetsOf(1)) = 2
    /\ args[1].trials = 2
    /\ \A q \in Runs \ {1} : pc[q] = "idle"

\* the sorted union of the parameter names of the settings
ParameterKeys == <<"entity_margin", "relation_margin", "threshold">>

\* the cell a record must hold for a parameter name: the value the setting
\* gives it, and the empty string when it gives none or gives None
ParameterCell(kwargs, key) ==
    IF key \in DictKeys(kwargs) /\ DictGet(kwargs, key) # None
    THEN DictGet(kwargs, key)
    ELSE PyStr("")

\* the parameter cells of every setting, worked out once
ParameterCells ==
    [j \in 1..Len(_get_settings) |->
        [i \in 1..Len(ParameterKeys) |->
            ParameterCell(_get_settings[j].kwargs, ParameterKeys[i])]]

\* the positions of the first parameter and of the elapsed time in a record
FirstParameterField == 7
TimeField == 10

\* C11: kwargs_keys is entity_margin, relation_margin, threshold; every
\* record a call holds, computed or read from the cache, has after the model
\* name one cell for each of these names, in that order, followed by the
\* elapsed time and the metrics: the setting's value where it has one that is
\* not None, the empty string otherwise; the frame's columns name them alike.
C11_ParameterCells ==
    /\ kwargs_keys = ParameterKeys
    /\ \A c \in Calls : \A i \in 1..Len(CallOf(c).records) :
        LET items == CallOf(c).records[i].items IN
            /\ Len(items) = TimeField + Len(METRICS)
            /\ items[ModelField] = PyStr(ModelName(Combination(c)[2].cls))
            /\ SubSeq(items, FirstParameterField, TimeField - 1)
                 = ParameterCells[SettingIndex(c)]
            /\ items[TimeField].ty = "float"
    /\ \A r \in Runs :
        df[r].how = "DataFrame" =>
            /\ SubSeq(df[r].columns, ModelField, TimeField)
                 = <<"model">> \o ParameterKeys \o <<"time">>
            /\ \A i \in 1..Len(df[r].rows) :
                Len(df[r].rows[i]) = Len(df[r].columns)

\* C11's case: records exist for a setting whose flags are both False, for
\* the setting whose threshold is None and for one with a numeric threshold
C11_Witness ==
    \E r \in Runs : \E j, k, l \in 1..Len(task[r]) :
        /\ Len(task[r][j].records) >= 1
        /\ Len(task[r][k].records) >= 1
        /\ Len(task[r][l].records) >= 1
        /\ TheGrid(r)[j][2].kwargs =
             << <<"entity_margin", PyBool(FALSE)>>, <<"relation_margin", PyBool(FALSE)>> >>
        /\ TheGrid(r)[k][2].kwargs = << <<"threshold", None>> >>
        /\ TheGrid(r)[l][2].kwargs = << <<"threshold", PyFloat("0.3")>> >>

\* a mapping as the set of its items, whatever their order
AsMapping(kwargs) == {<<key, DictGet(kwargs, key)>> : key \in DictKeys(kwargs)}

\* two mappings have the same parameter names and differ in a value
DifferInValue(a, b) ==
    /\ DictKeys(a) = DictKeys(b)
    /\ \E key \in DictKeys(a) : DictGet(a, key) # DictGet(b, key)

\* C12: two mappings with the same items, in whatever order, have the same
\* serialization and the same cache key; two mappings of the settings that
\* are not the same mapping, and so those that differ in a value, have
\* different serializations and different cache keys.
C12_KeyOfMapping ==
    \A i, j \in 1..Len(hashed) :
        LET a == hashed[i]
            b == hashed[j]
        IN  /\ AsMapping(a.model_kwargs) = AsMapping(b.model_kwargs) =>
                a.text = b.text /\ a.kwargs_hash = b.kwargs_hash
            /\ AsMapping(a.model_kwargs) # AsMapping(b.model_kwargs) =>
                a.text # b.text /\ a.kwargs_hash # b.kwargs_hash

\* C12's case: a mapping has been hashed with its items in two orders, and so
\* has a mapping that differs from it in one value only
C12_Witness ==
    \E i, j, k \in 1..Len(hashed) :
        /\ hashed[i].model_kwargs # hashed[j].model_kwargs
        /\ AsMapping(hashed[i].model_kwargs) = AsMapping(hashed[j].model_kwargs)
        /\ DifferInValue(hashed[i].model_kwargs, hashed[k].model_kwargs)

\* the cache paths invocation r has written, and those it has looked up
WrittenBy(r) == {PathAt(r, k) : k \in {j \in 1..Len(task[r]) : task[r][j].calls.write > 0}}
LookedUpBy(r) == {PathAt(r, k) : k \in {j \in 1..Len(task[r]) : task[r][j].pc # "queued"}}

\* C13 (as claimed): an invocation in test mode writes no file that an
\* invocation in full mode reads or writes: their tables are different files,
\* no cache path written by the one is looked up by the other, and so a full
\* build that follows only test-mode invocations computes every combination
\* itself, as it does from an empty runs directory.
C13_SmokeTestSeparate ==
    \A q, r \in Runs :
        (args[q].test /\ pc[q] # "idle" /\ ~args[r].test /\ pc[r] # "idle") =>
            /\ TablePath(args[q].test) # TablePath(args[r].test)
            /\ WrittenBy(q) \cap LookedUpBy(r) = {}
            /\ (q < r /\ \A p \in 1..(r - 1) : args[p].test) =>
                \A k \in 1..Len(task[r]) : task[r][k].found \in {"", "absent"}

\* C14: a call that finds its cache path existing with a content that is
\* not a complete JSON document fails, in that very step, with the decode
\* error; it has constructed no dataset and no model, evaluated nothing and
\* written nothing, then and ever after, and its step leaves every file,
\* the undecodable one included, as it is.
C14_MalformedRaises ==
    /\ [][\A c \in Calls :
            (LooksUp(c) /\ files[PathOf(c)].st = "partial") =>
                /\ task'[c[1]][c[2]].pc = "failed"
                /\ task'[c[1]][c[2]].error = "JSONDecodeError"
                /\ task'[c[1]][c[2]].records = <<>>
                /\ task'[c[1]][c[2]].calls = NoCalls
                /\ files' = files]_vars
    /\ [](\A c \in Calls :
            CallOf(c).found = "partial" =>
                /\ CallOf(c).pc = "failed"
                /\ CallOf(c).error = "JSONDecodeError"
                /\ CallOf(c).calls = NoCalls)

\* C14's case: a call has found its cache path existing without a complete
\* document in it, and its invocation of main has ended with the error
C14_Witness ==
    \E c \in Calls :
        /\ CallOf(c).found = "partial"
        /\ CallOf(c).pc = "failed"
        /\ pc[c[1]] = "failed"

\* a call of invocation r has failed
HasFailure(r) == \E k \in 1..Len(task[r]) : task[r][k].pc = "failed"

\* C15: an invocation with a failed call never finishes its build: it makes
\* no frame, and once the error has left _build it has ended with it; no
\* call is made twice and none constructs its dataset again; the tables
\* change only in the step that finishes a build all of whose calls have
\* returned; and the cache files of the calls that did compute and return
\* are in place, each holding that call's records.
C15_FailurePropagates ==
    /\ [](\A r \in Runs :
            /\ Len(task[r]) \in {0, Len(TheGrid(r))}
            /\ \A k \in 1..Len(task[r]) : task[r][k].calls.dataset <= 1
            /\ HasFailure(r) => pc[r] \in {"build", "failed"} /\ df[r] = NoFrame
            /\ pc[r] = "failed" =>
                /\ HasFailure(r)
                /\ \A k \in 1..Len(task[r]) :
                    ReturnedFromMiss(<<r, k>>) =>
                        files[PathAt(r, k)] = Full(JsonDumps(task[r][k].records)))
    /\ [][tables' # tables =>
            \E r \in Runs :
                /\ pc[r] = "build" /\ pc'[r] = "done"
                /\ ~HasFailure(r)]_vars
    /\ [][\A r \in Runs : pc[r] = "failed" =>
            pc'[r] = "failed" /\ task'[r] = task[r]]_vars

\* C15's case: an invocation has ended with the error of a call whose black
\* box raised, after another of its calls had computed and written its file
C15_Witness ==
    \E r \in Runs : \E j, k \in 1..Len(task[r]) :
        /\ pc[r] = "failed"
        /\ Raised(<<r, j>>)
        /\ ReturnedFromMiss(<<r, k>>)
        /\ task[r][k].calls.write = 1
        /\ files[PathAt(r, k)].st = "full"
        /\ ~tables[TablePath(args[r].test)].exists

\* the settings the source lists: the marginal variants over the two flags,
\* the first flag varying slowest, then the thresholds
MarginalKwargs(e, r) ==
    << <<"entity_margin", PyBool(e)>>, <<"relation_margin", PyBool(r)>> >>
ThresholdKwargs(v) == << <<"threshold", v>> >>

\* the members of a sequence
Members(seq) == {seq[i] : i \in 1..Len(seq)}

\* the number of marginal variants
MarginalVariants == 4

\* C16: the settings are the four marginal variants, one for each pair of
\* values of the two flags (True before False, the entity flag varying
\* slowest), and then the soft-inverse-triple variants with threshold None,
\* 0.1 and 0.3; the grid pairs every dataset with every setting exactly once,
\* dataset by dataset and, for one dataset, in the order of the settings;
\* and two generations from the same registry in the same mode are equal.
C16_SettingsAndGrid ==
    \A n \in 1..Len(plans) :
        LET ms == plans[n].model_settings
            ds == plans[n].datasets
            grid == plans[n].grid
        IN  /\ Len(ms) = MarginalVariants + 3
            /\ \A i \in 1..MarginalVariants :
                ms[i].cls = "MarginalDistributionBaseline"
            /\ {ms[i].kwargs : i \in 1..MarginalVariants}
                 = {MarginalKwargs(e, r) : e, r \in BOOLEAN}
            /\ <<ms[1].kwargs, ms[2].kwargs, ms[3].kwargs, ms[4].kwargs>>
                 = <<MarginalKwargs(TRUE, TRUE), MarginalKwargs(TRUE, FALSE),
                     MarginalKwargs(FALSE, TRUE), MarginalKwargs(FALSE, FALSE)>>
            /\ \A i \in (MarginalVariants + 1)..Len(ms) :
                ms[i].cls = "SoftInverseTripleBaseline"
            /\ <<ms[5].kwargs, ms[6].kwargs, ms[7].kwargs>>
                 = <<ThresholdKwargs(None), ThresholdKwargs(PyFloat("0.1")),
                     ThresholdKwargs(PyFloat("0.3"))>>
            /\ Len(grid) = Len(ds) * Len(ms)
            /\ \A i \in 1..Len(ds) : \A j \in 1..Len(ms) :
                grid[(i - 1) * Len(ms) + j] = <<ds[i], ms[j]>>
            /\ \A d \in Members(ds) : \A m \in Members(ms) :
                Cardinality({k \in 1..Len(grid) : grid[k] = <<d, m>>}) = 1
            /\ \A m \in 1..Len(plans) :
                plans[m].test = plans[n].test =>
                    /\ plans[m].model_settings = ms
                    /\ plans[m].grid = grid

\* C16's case: the grid has been generated twice in the same mode over
\* several datasets
C16_Witness ==
    /\ Len(plans) = 2
    /\ plans[1].test = plans[2].test
    /\ Len(plans[1].datasets) >= 3
    /\ Len(plans[2].grid) >= 3 * Len(_get_settings)

\* C17: the datasets of a build are datasets of the registry, each once, in
\* ascending order of triples_sort_key, and no dataset left out comes before
\* one that is in; in test mode they are 5, or all when the registry has
\* fewer; in full mode the last one is the cutoff dataset.
C17_DatasetPrefix ==
    \A n \in 1..Len(plans) :
        LET ds == plans[n].datasets
            registry == Members(dataset_resolver)
        IN  /\ Members(ds) \subseteq registry
            /\ \A i, j \in 1..Len(ds) :
                i < j => ds[i] # ds[j] /\ triples_sort_key(ds[i]) <= triples_sort_key(ds[j])
            /\ \A d \in registry \ Members(ds) : \A i \in 1..Len(ds) :
                triples_sort_key(ds[i]) <= triples_sort_key(d)
            /\ plans[n].test =>
                Len(ds) = (IF Cardinality(registry) < 5 THEN Cardinality(registry) ELSE 5)
            /\ ~plans[n].test =>
                /\ Len(ds) >= 1
                /\ ds[Len(ds)] = CutoffDataset
                /\ \A d \in registry :
                    d \in Members(ds) <=> triples_sort_key(d) <= triples_sort_key(CutoffDataset)

\* C17's case: over a registry of six datasets not in order of size, a test
\* mode selection of five that goes past the cutoff dataset and a full mode
\* selection that ends with it
C17_Witness ==
    /\ Len(dataset_resolver) = 6
    /\ dataset_resolver # SortedDatasets(dataset_resolver)
    /\ \E m, n \in 1..Len(plans) :
        /\ plans[m].test /\ Len(plans[m].datasets) = 5
        /\ plans[m].datasets[5] # CutoffDataset
        /\ ~plans[n].test /\ Len(plans[n].datasets) = 4

\* invocation r of main starts in this step
Starts(r) == pc[r] = "idle" /\ pc'[r] # "idle"

\* C18: main, as it starts, enters _build, with one call queued for every
\* combination of the grid, exactly when the table of its mode is not there
\* or --rebuild or --test is given; otherwise it ends at once with the frame
\* read from the table, makes no call, and its step changes no table and no
\* cache file; tables and cache files change only while some invocation is
\* inside _build.
C18_BuildExactlyWhen ==
    /\ [][\A r \in Runs :
            Starts(r) =>
                LET a == args'[r]
                    path == TablePath(a.test)
                IN  IF ~tables[path].exists \/ a.rebuild \/ a.test
                    THEN /\ pc'[r] = "build"
                         /\ Len(task'[r]) = Len(Grids[dataset_resolver][a.test])
                         /\ df'[r] = NoFrame
                    ELSE /\ pc'[r] = "done"
                         /\ task'[r] = <<>>
                         /\ df'[r] = ReadCsv(tables[path])
                         /\ tables' = tables
                         /\ files' = files]_vars
    /\ [][(tables' # tables \/ files' # files) =>
            \E r \in Runs : pc[r] = "build" /\ Len(task[r]) > 0]_vars
    /\ [](\A r \in Runs :
            df[r].how = "read_csv" => pc[r] = "done" /\ task[r] = <<>>)

\* C18's case: an invocation in full mode without --rebuild has found its
\* table and read it, after an invocation that built it
C18_Witness ==
    \E q, r \in Runs :
        /\ q < r
        /\ Built(q)
        /\ pc[r] = "done"
        /\ ~args[r].test /\ ~args[r].rebuild
        /\ df[r].how = "read_csv"
        /\ Len(df[r].rows) >= 1
        /\ task[r] = <<>>

====
